---- MODULE Spec2Model ----
(***************************************************************************)
(* ipp-usb: the USB transport for HTTP (UsbTransport).                     *)
(*                                                                         *)
(* A transport owns NConn bulk connections (usbConn).  Idle connections    *)
(* sit in the buffered channel connPool.  Callers run RoundTripWithSession *)
(* (acquire with usbConnGet, write the request, read the response, hand    *)
(* the connection over to usbResponseBodyWrapper), consumers Read and      *)
(* Close the response body, Close of a not drained body spawns a           *)
(* goroutine that drains the connection, and Shutdown waits until every    *)
(* connection is back in connPool.                                         *)
(*                                                                         *)
(* Goroutines are the model's processes: one per caller slot (Sessions),   *)
(* one drain goroutine per connection, one Shutdown caller.  Every         *)
(* blocking or shared-memory step of the code is one action.               *)
(***************************************************************************)
EXTENDS Integers, Sequences, FiniteSets

\* ------------------------------------------------------------------ bounds
NConn == 2         \* len(desc.IfAddrs): interface pairs of the device
NSess == 2         \* caller goroutines that issue round-trips
MaxSend == 1       \* bulk-out transfers one request takes
MaxRecv == 2       \* bulk-in transfers one response takes
MaxReclose == 1    \* repeated Close calls consumers make on closed bodies
MaxLen == 1000000  \* largest declared content length of a request
MaxZero == 6       \* zero-size transfers in a row the device makes
MaxIf == 5         \* interfaces of a device NewUsbTransport is tried on
MaxChunk == 2      \* bytes one Read of a request body delivers
MaxBody == 4       \* bytes a request body delivers in all
MaxCalls == 4      \* RoundTrip calls that take a session id
NLog == 2          \* goroutines that write to one Logger
MaxMsgs == 1       \* messages one goroutine builds with Begin ... Commit
MaxLines == 2      \* lines of one message
MaxDirect == 1     \* single lines one goroutine writes to the Logger itself
MaxPause == 2      \* Pause calls made on the Logger

\* case outreq.ContentLength < 16384: the body is prefetched
Threshold == 16384

\* usbConn.Read: input buffers are aligned by 512 bytes
Alignment == 512

\* usbConn.Read: backoff := time.Millisecond * 100, capped at 1000
BackoffStart == 100
BackoffMax == 1000

\* atomic.AddInt32(&httpSessionID, 1): the counter is an int32
MaxInt32 == 2147483647
MinInt32 == -MaxInt32 - 1

\* session := int(...) % 1000
SessionMod == 1000

Conns == 1..NConn
LogTasks == 1..NLog
Sessions == 1..NSess
NoConn == 0

\* error values
nil == "nil"
ErrShutdown == "ErrShutdown"      \* usbConnGet, case <-transport.shutdown
ErrCtx == "ctx.Err"               \* usbConnGet / Shutdown, case <-ctx.Done()
ErrIO == "ErrIO"                  \* iface.Send / iface.Recv failed
ErrParse == "ErrParse"            \* http.ReadResponse could not parse
ErrBody == "ErrBody"              \* the caller's request body failed

VARIABLES
    connPool,    \* UsbTransport.connPool: FIFO channel of idle connections
    shutdown,    \* UsbTransport.shutdown is closed
    sdPc,        \* Shutdown(): "idle" | "check" | "select" | "parked" | "done"
    sdErr,       \* Shutdown()'s return value
    rtPc,        \* per caller: position in RoundTripWithSession / body use
    rtConn,      \* per caller: RoundTripWithSession's local conn
    rtErr,       \* per caller: the error RoundTripWithSession returns
    ctxDone,     \* per caller: rq.Context() is cancelled
    rqBody,      \* per caller: outreq.Body: "none" | "stream" | "ended" | "failed"
    wrapConn,    \* per caller: usbResponseBodyWrapper.conn (NoConn: no wrapper)
    drained,     \* per caller: usbResponseBodyWrapper.drained
    closes,      \* per caller: Close calls made on the response body
    nput,        \* per caller: conn.put() calls made by this caller's goroutine
    alloc,       \* usbConnState.alloc
    read,        \* usbConnState.read
    write,       \* usbConnState.write
    cntSent,     \* usbConn.cntSent
    cntRecv,     \* usbConn.cntRecv
    relCount,    \* per connection: put() calls since it was last acquired
    drainPc,     \* per connection: the drain goroutine spawned by Close
    reclosed,    \* Close calls made on bodies that were closed before
    shPc,        \* request preparation of one RoundTripWithSession call
    rq,          \* the caller's request as it was when RoundTripWithSession
                 \* was called; avail: the bytes its body delivers
    hdr,         \* the header map: rq.Header and outreq.Header are one map
    outreq,      \* outreq: ContentLength, Close, Body
    wire,        \* what outreq.Write put on the connection
    rdPc,        \* one usbConn.Read call: "idle" | "recv" | "clear" | "sleep" | "ret"
    rdBuf,       \* len(b) of the caller's buffer
    rdLen,       \* len(b) handed to iface.Recv
    rdBackoff,   \* backoff, in milliseconds
    rdSlept,     \* the durations slept in this call, in order
    rdHalt,      \* iface.ClearHalt(true) calls made in this call
    rdZero,      \* transfers of this call that returned (0, nil)
    rdLast,      \* the result of the last iface.Recv
    rdRet,       \* what usbConn.Read returned
    connList,    \* UsbTransport.connList: all connections, in index order
    usbLog,      \* Reset and Close of the device handle and destroy of
                 \* connections, in the order they were called
    clPc,        \* Close(): "idle" | "destroy" | "done"
    clIdx,       \* Close(): position of its loop in connList
    clInUse,     \* Close(): the connInUse() it read
    nwPc,        \* NewUsbTransport: "off" | "open" | "info" | "conns" |
                 \* "cleanup" | "done"
    nwDesc,      \* NewUsbTransport: the interfaces of desc and what fails
    nwRet,       \* NewUsbTransport: "none" | "transport" | "error"
    wbCount,     \* usbRequestBodyWrapper.count
    wbDrained,   \* usbRequestBodyWrapper.drained
    wbIn,        \* what wrap.body.Read returned to the last wrapper Read
    wbRet,       \* what the last usbRequestBodyWrapper.Read returned
    wbCloseIn,   \* what wrap.body.Close returned to the last wrapper Close
    wbCloseRet,  \* what the last usbRequestBodyWrapper.Close returned
    httpSessionID,  \* the process-wide session counter, an int32
    sessLog,     \* the RoundTrip calls so far, in the order of their atomic
                 \* add: caller, counter value observed, session id
    lgPc,        \* per goroutine: "idle" | "msg" (it builds a message) |
                 \* "flush" (it is about to call Flush on the root message) |
                 \* "write" (it is in Flush's loop and holds Logger.lock)
    lgMsg,       \* per goroutine: lines of the child LogMessage it builds
    lgRoot,      \* Logger.LogMessage.lines: lines of the root message
    lgOut,       \* the lines written to Logger.out, in order
    lgPaused,    \* Logger.paused
    lgOutSet,    \* Logger.out is set (a ToXXX call has set the destination)
    lgMade,      \* per goroutine: messages begun and single lines written
    lgNPause     \* Pause calls made so far

chanVars == <<connPool, shutdown>>
sdVars == <<sdPc, sdErr>>
rtVars == <<rtPc, rtConn, rtErr, ctxDone, rqBody, wrapConn, drained, closes, nput>>
connVars == <<alloc, read, write, cntSent, cntRecv, relCount>>
shapeVars == <<shPc, rq, hdr, outreq, wire>>
mainVars == <<chanVars, sdVars, rtVars, connVars, drainPc, reclosed>>
readVars == <<rdPc, rdBuf, rdLen, rdBackoff, rdSlept, rdHalt, rdZero, rdLast, rdRet>>
closeVars == <<clPc, clIdx, clInUse>>
newVars == <<nwPc, nwDesc, nwRet>>
lifeVars == <<connList, usbLog, closeVars, newVars>>
wrapVars == <<wbCount, wbDrained, wbIn, wbRet, wbCloseIn, wbCloseRet>>
sessVars == <<httpSessionID, sessLog>>
logVars == <<lgPc, lgMsg, lgRoot, lgOut, lgPaused, lgOutSet, lgMade, lgNPause>>
extVars == <<wrapVars, sessVars, logVars>>
unitVars == <<shapeVars, readVars, lifeVars, extVars>>
vars == <<mainVars, unitVars>>

\* ------------------------------------------------------------- helpers
RECURSIVE SeqOfRange(_, _)
SeqOfRange(a, b) == IF a > b THEN <<>> ELSE <<a>> \o SeqOfRange(a + 1, b)

Occurrences(q, c) == Cardinality({i \in 1..Len(q) : q[i] = c})
InPool(c) == Occurrences(connPool, c) > 0

\* cap(transport.connPool) - len(transport.connPool)
connInUse == NConn - Len(connPool)

\* usbConnState
gotConn(c) == [alloc EXCEPT ![c] = @ + 1]
putConn(c) == [alloc EXCEPT ![c] = @ - 1]
beginRead(c) == [read EXCEPT ![c] = @ + 1]
doneRead(c) == [read EXCEPT ![c] = @ - 1]
beginWrite(c) == [write EXCEPT ![c] = @ + 1]
doneWrite(c) == [write EXCEPT ![c] = @ - 1]

\* the fields of a new transport but its connections: shutdown is open, no
\* caller and no goroutine has started, the state tracker is all zero
InitIdle ==
    /\ shutdown = FALSE
    /\ sdPc = "idle"
    /\ sdErr = nil
    /\ rtPc = [s \in Sessions |-> "idle"]
    /\ rtConn = [s \in Sessions |-> NoConn]
    /\ rtErr = [s \in Sessions |-> nil]
    /\ ctxDone = [s \in Sessions |-> FALSE]
    /\ rqBody = [s \in Sessions |-> "none"]
    /\ wrapConn = [s \in Sessions |-> NoConn]
    /\ drained = [s \in Sessions |-> FALSE]
    /\ closes = [s \in Sessions |-> 0]
    /\ nput = [s \in Sessions |-> 0]
    /\ alloc = [c \in Conns |-> 0]
    /\ read = [c \in Conns |-> 0]
    /\ write = [c \in Conns |-> 0]
    /\ cntSent = [c \in Conns |-> 0]
    /\ cntRecv = [c \in Conns |-> 0]
    /\ relCount = [c \in Conns |-> 0]
    /\ drainPc = [c \in Conns |-> "none"]
    /\ reclosed = 0

\* no request is being prepared
NoHeader == [Expect |-> "", Connection |-> "", UserAgent |-> ""]
NoRequest == [Method |-> "GET", Header |-> NoHeader, ContentLength |-> 0,
              Close |-> FALSE, Body |-> "nil", avail |-> 0]
NoOutreq == [ContentLength |-> 0, Close |-> FALSE, Body |-> "nil", buffered |-> 0]
NoWire == [Header |-> NoHeader, framing |-> "", length |-> 0]

ShapeOff ==
    /\ shPc = "off"
    /\ rq = NoRequest
    /\ hdr = NoHeader
    /\ outreq = NoOutreq
    /\ wire = NoWire

\* no usbConn.Read is looked into
NoResult == [n |-> 0, err |-> "none"]

ReadOff ==
    /\ rdPc = "idle"
    /\ rdBuf = 0
    /\ rdLen = 0
    /\ rdBackoff = 0
    /\ rdSlept = <<>>
    /\ rdHalt = 0
    /\ rdZero = 0
    /\ rdLast = NoResult
    /\ rdRet = NoResult

\* a usbRequestBodyWrapper as RoundTripWithSession creates it: count and
\* drained are zero values, neither Read nor Close was called
WrapOff ==
    /\ wbCount = 0
    /\ wbDrained = FALSE
    /\ wbIn = NoResult
    /\ wbRet = NoResult
    /\ wbCloseIn = "none"
    /\ wbCloseRet = "none"

\* no RoundTrip was called in this process
SessOff ==
    /\ httpSessionID = 0
    /\ sessLog = <<>>

\* a Logger nothing was written to
LogIdle ==
    /\ lgPc = [t \in LogTasks |-> "idle"]
    /\ lgMsg = [t \in LogTasks |-> <<>>]
    /\ lgRoot = <<>>
    /\ lgOut = <<>>
    /\ lgPaused = 0
    /\ lgMade = [t \in LogTasks |-> [msgs |-> 0, lines |-> 0]]
    /\ lgNPause = 0

\* the transport's logger: its destination is set
LogOff == LogIdle /\ lgOutSet = TRUE

ExtOff == WrapOff /\ SessOff /\ LogOff

\* events of usbLog
Reset == [op |-> "Reset", conn |-> NoConn]
DevClose == [op |-> "Close", conn |-> NoConn]
destroy(c) == [op |-> "destroy", conn |-> c]

\* nobody has called Close
CloseOff ==
    /\ clPc = "idle"
    /\ clIdx = 0
    /\ clInUse = 0

\* the state NewUsbTransport returns a transport in: every opened connection
\* was sent to connPool and appended to connList, in index order
InitTransport ==
    /\ InitIdle
    /\ connPool = SeqOfRange(1, NConn)
    /\ connList = SeqOfRange(1, NConn)
    /\ usbLog = <<>>
    /\ nwPc = "off"
    /\ nwDesc = [nIf |-> NConn, fail |-> "none", failAt |-> 0]
    /\ nwRet = "transport"

Init ==
    /\ InitTransport
    /\ CloseOff
    /\ ShapeOff
    /\ ReadOff
    /\ ExtOff

\* --------------------------------------------------- request preparation
\* declared content lengths of the requests handed in (-1: unknown)
Lengths == {-1, 0, 1, 100, Threshold - 1, Threshold, Threshold + 1, MaxLen}

\* the requests handed to RoundTripWithSession: a header value "" is an absent
\* header; a declared length of zero has an empty body, a positive one has a
\* body that delivers less, as much or more than declared
Requests ==
    {r \in [Method : {"GET", "POST"},
            Header : [Expect : {"", "100-continue"},
                      Connection : {"", "keep-alive", "close"},
                      UserAgent : {"", "CUPS"}],
            ContentLength : Lengths,
            Close : BOOLEAN,
            Body : {"nil", "body"},
            avail : {0, 50} \cup {l + d : l \in Lengths, d \in {-1, 0, 1}}] :
        /\ r.Body = "nil" => (r.ContentLength <= 0 /\ r.avail = 0)
        /\ r.ContentLength = 0 => r.avail = 0
        /\ r.ContentLength < 0 => r.avail \in {0, 50}
        /\ r.ContentLength > 0 =>
              r.avail \in {r.ContentLength - 1, r.ContentLength, r.ContentLength + 1}}

\* faulty variant: the Expect header is left in place
PrepareHeader_KeepExpect(h) ==
    [Expect |-> h.Expect,
     Connection |-> "close",
     UserAgent |-> IF h.UserAgent = "" THEN "ipp-usb" ELSE h.UserAgent]

\* outreq.Header.Del("Expect"); outreq.Header.Set("Connection", "close");
\* User-Agent is set to "ipp-usb" if the header has none
PrepareHeader(h) ==
    [Expect |-> "",
     Connection |-> "close",
     UserAgent |-> IF h.UserAgent = "" THEN "ipp-usb" ELSE h.UserAgent]

\* faulty variant: the prefetch case stops one byte short of the threshold
BodyShape_Exclusive(cl) ==
    IF cl <= 0 THEN "asis"
    ELSE IF cl < Threshold - 1 THEN "prefetch"
    ELSE "chunked"

\* faulty variant: the prefetch case includes the threshold
BodyShape_Inclusive(cl) ==
    IF cl <= 0 THEN "asis"
    ELSE IF cl <= Threshold THEN "prefetch"
    ELSE "chunked"

\* the switch on outreq.ContentLength
BodyShape(cl) ==
    IF cl <= 0 THEN "asis"
    ELSE IF cl < Threshold THEN "prefetch"
    ELSE "chunked"

\* faulty variant: a body that ends early is no error
CopyN_NoError(avail, n) ==
    [copied |-> IF avail < n THEN avail ELSE n, err |-> FALSE]

\* io.CopyN(buf, outreq.Body, n) on a body that delivers avail bytes: the bytes
\* copied and whether it returns an error (the body ended before n bytes)
CopyN(avail, n) ==
    [copied |-> IF avail < n THEN avail ELSE n, err |-> avail < n]

\* the body framing net/http's Request.Write chooses for outreq: no body;
\* a Content-Length header with the literal length; or, the length being
\* unknown (negative, or zero with a body), Transfer-Encoding: chunked, except
\* that an empty body of a GET is found by a probe and sent as no body
Framing(method, o, avail) ==
    IF o.Body = "nil" THEN "none"
    ELSE IF o.ContentLength > 0 THEN "Content-Length"
    ELSE IF method = "GET" /\ avail = 0 THEN "none"
    ELSE "chunked"

\* a request is handed to RoundTripWithSession
InitShape ==
    /\ InitTransport
    /\ shPc = "call"
    /\ rq \in Requests
    /\ hdr = rq.Header
    /\ outreq = NoOutreq
    /\ wire = NoWire
    /\ ReadOff
    /\ CloseOff
    /\ ExtOff

\* RoundTripWithSession up to usbConnGet: outreq is a shallow copy of rq (the
\* header map is shared), the header is edited, the body is wrapped and shaped
ShapeRequest ==
    /\ shPc = "call"
    /\ hdr' = PrepareHeader(hdr)
    /\ LET shape == BodyShape(rq.ContentLength)
           got == CopyN(rq.avail, rq.ContentLength)
       IN  IF shape = "prefetch" /\ got.err
           THEN /\ shPc' = "failed"
                /\ outreq' = [ContentLength |-> rq.ContentLength, Close |-> TRUE,
                              Body |-> "wrapped", buffered |-> got.copied]
           ELSE /\ shPc' = "get"
                /\ outreq' =
                     [ContentLength |-> IF shape = "chunked" THEN -1
                                        ELSE rq.ContentLength,
                      Close |-> TRUE,
                      Body |-> IF rq.Body = "nil" THEN "nil"
                               ELSE IF shape = "prefetch" THEN "buffer"
                               ELSE "wrapped",
                      buffered |-> IF shape = "prefetch" THEN got.copied ELSE 0]
    /\ UNCHANGED <<mainVars, extVars, readVars, lifeVars, rq, wire>>

\* usbConnGet hands out a connection
ShapeGet ==
    /\ shPc = "get"
    /\ shPc' = "write"
    /\ UNCHANGED <<mainVars, extVars, readVars, lifeVars, rq, hdr, outreq, wire>>

\* outreq.Write(conn): the header and the body as framed are on the wire
ShapeWrite ==
    /\ shPc = "write"
    /\ shPc' = "written"
    /\ wire' = [Header |-> hdr,
                framing |-> Framing(rq.Method, outreq, rq.avail),
                length |-> IF Framing(rq.Method, outreq, rq.avail) = "Content-Length"
                           THEN outreq.ContentLength ELSE 0]
    /\ UNCHANGED <<mainVars, extVars, readVars, lifeVars, rq, hdr, outreq>>

NextShape ==
    \/ ShapeRequest
    \/ ShapeGet
    \/ ShapeWrite

SpecShape == InitShape /\ [][NextShape]_vars

\* ------------------------------------------------------- usbConn.Read
\* buffer lengths callers hand to usbConn.Read
BufLens ==
    {1, Alignment - 1, Alignment, Alignment + 1, 2 * Alignment - 1,
     2 * Alignment, 8 * Alignment, 8 * Alignment + 1}

\* faulty variant: every buffer is cut to a multiple of 512, small ones to nothing
Align_Always(n) == n - (n % Alignment)

\* if n := len(b); n >= 512 { n &= ^511; b = b[0:n] }
Align(n) == IF n >= Alignment THEN n - (n % Alignment) ELSE n

\* faulty variant: the doubling is not capped
NextBackoff_NoCap(b) == b * 2

\* backoff *= 2; if backoff > time.Millisecond*1000 { backoff = 1000 ms }
NextBackoff(b) == IF b * 2 > BackoffMax THEN BackoffMax ELSE b * 2

\* faulty variant: the result of every transfer is returned
ReadReturns_Always(n, err) == TRUE

\* if n != 0 || err != nil { return n, err }
ReadReturns(n, err) == n # 0 \/ err # nil

\* usbConn.Read is called with a buffer of n bytes
ReadCall ==
    /\ rdPc \in {"idle", "ret"}
    /\ \E n \in BufLens :
         /\ rdBuf' = n
         /\ rdLen' = Align(n)
    /\ rdBackoff' = BackoffStart
    /\ rdSlept' = <<>>
    /\ rdHalt' = 0
    /\ rdZero' = 0
    /\ rdLast' = NoResult
    /\ rdRet' = NoResult
    /\ rdPc' = "recv"
    /\ UNCHANGED <<mainVars, extVars, shapeVars, lifeVars>>

\* n, err := conn.iface.Recv(b, 0): the device delivers nothing, a byte or a
\* full buffer, with or without an error; Read returns or goes on to ClearHalt
ReadRecv ==
    /\ rdPc = "recv"
    /\ \E n \in {0, 1, rdLen}, err \in {nil, ErrIO} :
         /\ (n = 0 /\ err = nil) => rdZero < MaxZero
         /\ rdLast' = [n |-> n, err |-> err]
         /\ IF ReadReturns(n, err)
            THEN /\ rdRet' = [n |-> n, err |-> err]
                 /\ rdPc' = "ret"
                 /\ UNCHANGED rdZero
            ELSE /\ rdZero' = rdZero + 1
                 /\ rdPc' = "clear"
                 /\ UNCHANGED rdRet
    /\ UNCHANGED <<mainVars, extVars, shapeVars, lifeVars, rdBuf, rdLen, rdBackoff, rdSlept, rdHalt>>

\* err = conn.iface.ClearHalt(true): its error is logged and nothing else
ReadClearHalt ==
    /\ rdPc = "clear"
    /\ rdHalt' = rdHalt + 1
    /\ rdPc' = "sleep"
    /\ UNCHANGED <<mainVars, extVars, shapeVars, lifeVars, rdBuf, rdLen, rdBackoff, rdSlept, rdZero,
                   rdLast, rdRet>>

\* time.Sleep(backoff), then the backoff is doubled up to its cap
ReadSleep ==
    /\ rdPc = "sleep"
    /\ rdSlept' = Append(rdSlept, rdBackoff)
    /\ rdBackoff' = NextBackoff(rdBackoff)
    /\ rdPc' = "recv"
    /\ UNCHANGED <<mainVars, extVars, shapeVars, lifeVars, rdBuf, rdLen, rdHalt, rdZero, rdLast, rdRet>>

NextRead ==
    \/ ReadCall
    \/ ReadRecv
    \/ ReadClearHalt
    \/ ReadSleep

SpecRead == Init /\ [][NextRead]_vars

\* ---------------------------------------------------------------- put
\* faulty variant: the byte counters are left as they are
put_KeepCounters(c) ==
    /\ alloc' = putConn(c)
    /\ relCount' = [relCount EXCEPT ![c] = @ + 1]
    /\ connPool' = IF Len(connPool) < NConn THEN Append(connPool, c) ELSE connPool
    /\ UNCHANGED <<shutdown, read, write, cntRecv, cntSent>>

\* faulty variant: the connection is not sent to connPool
put_NoSend(c) ==
    /\ cntRecv' = [cntRecv EXCEPT ![c] = 0]
    /\ cntSent' = [cntSent EXCEPT ![c] = 0]
    /\ alloc' = putConn(c)
    /\ relCount' = [relCount EXCEPT ![c] = @ + 1]
    /\ UNCHANGED <<connPool, shutdown, read, write>>

\* usbConn.put up to its channel send: reader reset, counters zeroed, putConn,
\* then transport.connPool <- conn, which blocks while the channel is full
put(c) ==
    /\ cntRecv' = [cntRecv EXCEPT ![c] = 0]
    /\ cntSent' = [cntSent EXCEPT ![c] = 0]
    /\ alloc' = putConn(c)
    /\ relCount' = [relCount EXCEPT ![c] = @ + 1]
    /\ connPool' = IF Len(connPool) < NConn THEN Append(connPool, c) ELSE connPool
    /\ UNCHANGED <<shutdown, read, write>>

\* where put continues: the non-blocking signal, or blocked in the channel send
putNext == IF Len(connPool) < NConn THEN "signal" ELSE "send"

\* usbConn.put, select { case transport.connReleased <- struct{}{}: default: }
\* connReleased is unbuffered: the send happens only if Shutdown is parked in
\* its select, otherwise the signal is dropped
connReleasedSend == sdPc' = IF sdPc = "parked" THEN "check" ELSE sdPc

\* ---------------------------------------------------------- round-trip
\* RoundTripWithSession is entered with a request; its body, if any, is
\* streamed while the request is written
RoundTrip(s) ==
    /\ rtPc[s] \in {"idle", "done"}
    /\ \E b \in {"none", "stream"} : rqBody' = [rqBody EXCEPT ![s] = b]
    /\ rtPc' = [rtPc EXCEPT ![s] = "get"]
    /\ rtConn' = [rtConn EXCEPT ![s] = NoConn]
    /\ rtErr' = [rtErr EXCEPT ![s] = nil]
    /\ ctxDone' = [ctxDone EXCEPT ![s] = FALSE]
    /\ wrapConn' = [wrapConn EXCEPT ![s] = NoConn]
    /\ drained' = [drained EXCEPT ![s] = FALSE]
    /\ closes' = [closes EXCEPT ![s] = 0]
    /\ nput' = [nput EXCEPT ![s] = 0]
    /\ UNCHANGED <<unitVars, reclosed, chanVars, sdVars, connVars, drainPc>>

\* faulty variant: the outgoing request keeps the caller's context, so a
\* cancellation between transfers aborts the exchange with the context's error
CancelRequest_Abort(s) ==
    /\ rtPc[s] \in {"get", "write", "writing", "read", "reading"}
    /\ ~ctxDone[s]
    /\ ctxDone' = [ctxDone EXCEPT ![s] = TRUE]
    /\ IF rtPc[s] \in {"write", "read"}
       THEN /\ rtPc' = [rtPc EXCEPT ![s] = "put"]
            /\ rtErr' = [rtErr EXCEPT ![s] = ErrCtx]
       ELSE UNCHANGED <<rtPc, rtErr>>
    /\ UNCHANGED <<unitVars, reclosed, chanVars, sdVars, connVars, drainPc, rtConn,
                   rqBody, wrapConn, drained, closes, nput>>

\* the caller cancels the original request's context while
\* RoundTripWithSession runs (nothing reads the context after it returns)
CancelRequest(s) ==
    /\ rtPc[s] \in {"get", "write", "writing", "read", "reading"}
    /\ ~ctxDone[s]
    /\ ctxDone' = [ctxDone EXCEPT ![s] = TRUE]
    /\ UNCHANGED <<unitVars, reclosed, chanVars, sdVars, connVars, drainPc, rtPc, rtConn, rtErr,
                   rqBody, wrapConn, drained, closes, nput>>

\* faulty variant: a connection is received first and the shutdown flag tested after
usbConnGetShutdown_Leak(s) ==
    /\ rtPc[s] = "get"
    /\ shutdown
    /\ connPool' = IF Len(connPool) > 0 THEN Tail(connPool) ELSE connPool
    /\ rtPc' = [rtPc EXCEPT ![s] = "done"]
    /\ rtErr' = [rtErr EXCEPT ![s] = ErrShutdown]
    /\ ctxDone' = [ctxDone EXCEPT ![s] = FALSE]
    /\ UNCHANGED <<unitVars, reclosed, shutdown, sdVars, connVars, drainPc, rtConn, rqBody,
                   wrapConn, drained, closes, nput>>

\* usbConnGet, case <-transport.shutdown
usbConnGetShutdown(s) ==
    /\ rtPc[s] = "get"
    /\ shutdown
    /\ rtPc' = [rtPc EXCEPT ![s] = "done"]
    /\ rtErr' = [rtErr EXCEPT ![s] = ErrShutdown]
    /\ ctxDone' = [ctxDone EXCEPT ![s] = FALSE]
    /\ UNCHANGED <<unitVars, reclosed, chanVars, sdVars, connVars, drainPc, rtConn, rqBody, wrapConn, drained, closes, nput>>

\* usbConnGet, case <-ctx.Done()
usbConnGetCancel(s) ==
    /\ rtPc[s] = "get"
    /\ ctxDone[s]
    /\ rtPc' = [rtPc EXCEPT ![s] = "done"]
    /\ rtErr' = [rtErr EXCEPT ![s] = ErrCtx]
    /\ ctxDone' = [ctxDone EXCEPT ![s] = FALSE]
    /\ UNCHANGED <<unitVars, reclosed, chanVars, sdVars, connVars, drainPc, rtConn, rqBody, wrapConn, drained, closes, nput>>

\* faulty variant: the case takes the connection without removing it from the channel
usbConnGetConn_Peek(s) ==
    /\ rtPc[s] = "get"
    /\ Len(connPool) > 0
    /\ alloc' = gotConn(Head(connPool))
    /\ relCount' = [relCount EXCEPT ![Head(connPool)] = 0]
    /\ rtConn' = [rtConn EXCEPT ![s] = Head(connPool)]
    /\ rtPc' = [rtPc EXCEPT ![s] = "write"]
    /\ UNCHANGED <<unitVars, reclosed, chanVars, sdVars, read, write, cntSent, cntRecv,
                   drainPc, rtErr, ctxDone, rqBody, wrapConn, drained, closes, nput>>

\* usbConnGet, case conn := <-transport.connPool, then connstate.gotConn
usbConnGetConn(s) ==
    /\ rtPc[s] = "get"
    /\ Len(connPool) > 0
    /\ connPool' = Tail(connPool)
    /\ alloc' = gotConn(Head(connPool))
    /\ relCount' = [relCount EXCEPT ![Head(connPool)] = 0]
    /\ rtConn' = [rtConn EXCEPT ![s] = Head(connPool)]
    /\ rtPc' = [rtPc EXCEPT ![s] = "write"]
    /\ UNCHANGED <<unitVars, reclosed, shutdown, sdVars, read, write, cntSent, cntRecv, drainPc,
                   rtErr, ctxDone, rqBody, wrapConn, drained, closes, nput>>

\* usbConnGet is one select over the three channels: when several cases are
\* ready the Go runtime picks one of them at random
usbConnGet(s) ==
    \/ usbConnGetShutdown(s)
    \/ usbConnGetCancel(s)
    \/ usbConnGetConn(s)

\* faulty variant: the underlying body's error is returned as it is
usbRequestBodyRead_Verbatim(r) == r

\* usbRequestBodyWrapper.Read: the error it returns for the underlying body's
\* error r (nil, "EOF" or another error): if err != nil { err = io.EOF }
usbRequestBodyRead(r) == IF r # nil THEN "EOF" ELSE nil

\* faulty variant: the body's error is handed to outreq.Write, which fails
ReqBodyRead_Abort(s) ==
    /\ rtPc[s] = "write"
    /\ rqBody[s] = "stream"
    /\ \E r \in {"EOF", ErrBody} :
         IF r = "EOF"
         THEN /\ rqBody' = [rqBody EXCEPT ![s] = "ended"]
              /\ UNCHANGED <<rtPc, rtErr, ctxDone>>
         ELSE /\ rtPc' = [rtPc EXCEPT ![s] = "put"]
              /\ rtErr' = [rtErr EXCEPT ![s] = r]
              /\ rqBody' = [rqBody EXCEPT ![s] = "failed"]
              /\ ctxDone' = [ctxDone EXCEPT ![s] = FALSE]
    /\ UNCHANGED <<unitVars, reclosed, chanVars, sdVars, connVars, drainPc, rtConn,
                   wrapConn, drained, closes, nput>>

\* outreq.Write(conn) reads the streamed request body (a body of unknown
\* length, or one of 16384 bytes or more sent as chunked) through the wrapper:
\* the body reaches its end ("ended") or its source fails ("failed"); what the
\* wrapper returns is end-of-stream and ends the body, an error would make
\* outreq.Write fail
ReqBodyRead(s) ==
    /\ rtPc[s] = "write"
    /\ rqBody[s] = "stream"
    /\ \E r \in {"EOF", ErrBody} :
         IF usbRequestBodyRead(r) = "EOF"
         THEN /\ rqBody' = [rqBody EXCEPT ![s] = IF r = "EOF" THEN "ended" ELSE "failed"]
              /\ UNCHANGED <<rtPc, rtErr, ctxDone>>
         ELSE /\ rtPc' = [rtPc EXCEPT ![s] = "put"]
              /\ rtErr' = [rtErr EXCEPT ![s] = usbRequestBodyRead(r)]
              /\ rqBody' = [rqBody EXCEPT ![s] = "none"]
              /\ ctxDone' = [ctxDone EXCEPT ![s] = FALSE]
    /\ UNCHANGED <<unitVars, reclosed, chanVars, sdVars, connVars, drainPc, rtConn,
                   wrapConn, drained, closes, nput>>

\* usbConn.Write is entered: connstate.beginWrite, then iface.Send blocks
ConnWriteBegin(s) ==
    /\ rtPc[s] = "write"
    /\ cntSent[rtConn[s]] < MaxSend
    /\ write' = beginWrite(rtConn[s])
    /\ rtPc' = [rtPc EXCEPT ![s] = "writing"]
    /\ UNCHANGED <<unitVars, reclosed, chanVars, sdVars, alloc, read, cntSent, cntRecv, relCount,
                   drainPc, rtConn, rtErr, ctxDone, rqBody, wrapConn, drained,
                   closes, nput>>

\* iface.Send returned n > 0 and no error; usbConn.Write returns (doneWrite)
ConnWriteOk(s) ==
    /\ rtPc[s] = "writing"
    /\ write' = doneWrite(rtConn[s])
    /\ cntSent' = [cntSent EXCEPT ![rtConn[s]] = @ + 1]
    /\ rtPc' = [rtPc EXCEPT ![s] = "write"]
    /\ UNCHANGED <<unitVars, reclosed, chanVars, sdVars, alloc, read, cntRecv, relCount, drainPc,
                   rtConn, rtErr, ctxDone, rqBody, wrapConn, drained, closes, nput>>

\* iface.Send failed: outreq.Write returns the error, RoundTripWithSession
\* goes to conn.put() and returns it
ConnWriteFail(s) ==
    /\ rtPc[s] = "writing"
    /\ write' = doneWrite(rtConn[s])
    /\ rtErr' = [rtErr EXCEPT ![s] = ErrIO]
    /\ rtPc' = [rtPc EXCEPT ![s] = "put"]
    /\ ctxDone' = [ctxDone EXCEPT ![s] = FALSE]
    /\ rqBody' = [rqBody EXCEPT ![s] = "none"]
    /\ UNCHANGED <<unitVars, reclosed, chanVars, sdVars, alloc, read, cntSent, cntRecv, relCount,
                   drainPc, rtConn, wrapConn, drained, closes, nput>>

\* faulty variant: the response is read before anything of the request is sent
WriteDone_Early(s) ==
    /\ rtPc[s] = "write"
    /\ rtPc' = [rtPc EXCEPT ![s] = "read"]
    /\ rqBody' = [rqBody EXCEPT ![s] = "none"]
    /\ UNCHANGED <<unitVars, reclosed, chanVars, sdVars, connVars, drainPc, rtConn, rtErr, ctxDone,
                   wrapConn, drained, closes, nput>>

\* outreq.Write returned nil: the header and the whole body are on the wire
WriteDone(s) ==
    /\ rtPc[s] = "write"
    /\ cntSent[rtConn[s]] >= 1
    /\ rqBody[s] \in {"none", "ended", "failed"}
    /\ rtPc' = [rtPc EXCEPT ![s] = "read"]
    /\ rqBody' = [rqBody EXCEPT ![s] = "none"]
    /\ UNCHANGED <<unitVars, reclosed, chanVars, sdVars, connVars, drainPc, rtConn, rtErr, ctxDone,
                   wrapConn, drained, closes, nput>>

\* http.ReadResponse fills conn.reader: usbConn.Read is entered (beginRead)
RespReadBegin(s) ==
    /\ rtPc[s] = "read"
    /\ cntRecv[rtConn[s]] < MaxRecv
    /\ read' = beginRead(rtConn[s])
    /\ rtPc' = [rtPc EXCEPT ![s] = "reading"]
    /\ UNCHANGED <<unitVars, reclosed, chanVars, sdVars, alloc, write, cntSent, cntRecv, relCount,
                   drainPc, rtConn, rtErr, ctxDone, rqBody, wrapConn, drained,
                   closes, nput>>

\* iface.Recv returned data; usbConn.Read returns (doneRead)
RespReadOk(s) ==
    /\ rtPc[s] = "reading"
    /\ read' = doneRead(rtConn[s])
    /\ cntRecv' = [cntRecv EXCEPT ![rtConn[s]] = @ + 1]
    /\ rtPc' = [rtPc EXCEPT ![s] = "read"]
    /\ UNCHANGED <<unitVars, reclosed, chanVars, sdVars, alloc, write, cntSent, relCount, drainPc,
                   rtConn, rtErr, ctxDone, rqBody, wrapConn, drained, closes, nput>>

\* faulty variant: usbConn.Read returns the error without connstate.doneRead
RespReadFail_NoDoneRead(s) ==
    /\ rtPc[s] = "reading"
    /\ rtErr' = [rtErr EXCEPT ![s] = ErrIO]
    /\ rtPc' = [rtPc EXCEPT ![s] = "put"]
    /\ ctxDone' = [ctxDone EXCEPT ![s] = FALSE]
    /\ UNCHANGED <<unitVars, reclosed, chanVars, sdVars, connVars,
                   drainPc, rtConn, rqBody, wrapConn, drained, closes, nput>>

\* iface.Recv failed: http.ReadResponse returns the error
RespReadFail(s) ==
    /\ rtPc[s] = "reading"
    /\ read' = doneRead(rtConn[s])
    /\ rtErr' = [rtErr EXCEPT ![s] = ErrIO]
    /\ rtPc' = [rtPc EXCEPT ![s] = "put"]
    /\ ctxDone' = [ctxDone EXCEPT ![s] = FALSE]
    /\ UNCHANGED <<unitVars, reclosed, chanVars, sdVars, alloc, write, cntSent, cntRecv, relCount,
                   drainPc, rtConn, rqBody, wrapConn, drained, closes, nput>>

\* faulty variant: the error is returned without conn.put()
ParseFail_NoPut(s) ==
    /\ rtPc[s] = "read"
    /\ cntRecv[rtConn[s]] >= 1
    /\ rtErr' = [rtErr EXCEPT ![s] = ErrParse]
    /\ rtPc' = [rtPc EXCEPT ![s] = "done"]
    /\ ctxDone' = [ctxDone EXCEPT ![s] = FALSE]
    /\ UNCHANGED <<unitVars, reclosed, chanVars, sdVars, connVars, drainPc, rtConn, rqBody,
                   wrapConn, drained, closes, nput>>

\* http.ReadResponse cannot parse what it received
ParseFail(s) ==
    /\ rtPc[s] = "read"
    /\ cntRecv[rtConn[s]] >= 1
    /\ rtErr' = [rtErr EXCEPT ![s] = ErrParse]
    /\ rtPc' = [rtPc EXCEPT ![s] = "put"]
    /\ ctxDone' = [ctxDone EXCEPT ![s] = FALSE]
    /\ UNCHANGED <<unitVars, reclosed, chanVars, sdVars, connVars, drainPc, rtConn, rqBody,
                   wrapConn, drained, closes, nput>>

\* http.ReadResponse succeeded: resp.Body = &usbResponseBodyWrapper{conn: conn},
\* and the response is returned to the caller
ParseOk(s) ==
    /\ rtPc[s] = "read"
    /\ cntRecv[rtConn[s]] >= 1
    /\ wrapConn' = [wrapConn EXCEPT ![s] = rtConn[s]]
    /\ drained' = [drained EXCEPT ![s] = FALSE]
    /\ rtPc' = [rtPc EXCEPT ![s] = "body"]
    /\ ctxDone' = [ctxDone EXCEPT ![s] = FALSE]
    /\ UNCHANGED <<unitVars, reclosed, chanVars, sdVars, connVars, drainPc, rtConn, rtErr, rqBody, closes, nput>>

\* conn.put() called by the caller's goroutine: the error paths of
\* RoundTripWithSession and the synchronous path of the body's Close
SessPut(s) ==
    /\ rtPc[s] = "put"
    /\ put(rtConn[s])
    /\ nput' = [nput EXCEPT ![s] = @ + 1]
    /\ rtPc' = [rtPc EXCEPT ![s] = putNext]
    /\ UNCHANGED <<unitVars, reclosed, sdVars, drainPc, rtConn, rtErr, ctxDone, rqBody, wrapConn,
                   drained, closes>>

\* put was blocked in transport.connPool <- conn and the channel has room again
SessSend(s) ==
    /\ rtPc[s] = "send"
    /\ Len(connPool) < NConn
    /\ connPool' = Append(connPool, rtConn[s])
    /\ rtPc' = [rtPc EXCEPT ![s] = "signal"]
    /\ UNCHANGED <<unitVars, reclosed, shutdown, sdVars, connVars, drainPc, rtConn, rtErr, ctxDone,
                   rqBody, wrapConn, drained, closes, nput>>

\* faulty variant: the caller's goroutine calls conn.put() a second time
SessSignal_PutAgain(s) ==
    /\ rtPc[s] = "signal"
    /\ connReleasedSend
    /\ rtPc' = [rtPc EXCEPT ![s] = IF nput[s] < 2 THEN "put" ELSE "done"]
    /\ UNCHANGED <<unitVars, reclosed, chanVars, sdErr, connVars, drainPc, rtConn, rtErr,
                   ctxDone, rqBody, wrapConn, drained, closes, nput>>

\* the end of put: the non-blocking send on connReleased; then the call that
\* made the put (RoundTripWithSession or Close) returns
SessSignal(s) ==
    /\ rtPc[s] = "signal"
    /\ connReleasedSend
    /\ rtPc' = [rtPc EXCEPT ![s] = "done"]
    /\ UNCHANGED <<unitVars, reclosed, chanVars, sdErr, connVars, drainPc, rtConn, rtErr,
                   ctxDone, rqBody, wrapConn, drained, closes, nput>>

\* ------------------------------------------------------- response body
\* usbResponseBodyWrapper.Read needs more data from USB: wrap.body.Read
\* enters usbConn.Read through conn.reader
BodyReadBegin(s) ==
    /\ rtPc[s] = "body"
    /\ ~drained[s]
    /\ cntRecv[wrapConn[s]] < MaxRecv
    /\ read' = beginRead(wrapConn[s])
    /\ rtPc' = [rtPc EXCEPT ![s] = "breading"]
    /\ UNCHANGED <<unitVars, reclosed, chanVars, sdVars, alloc, write, cntSent, cntRecv, relCount,
                   drainPc, rtConn, rtErr, ctxDone, rqBody, wrapConn, drained,
                   closes, nput>>

\* the read returned data and no error
BodyReadOk(s) ==
    /\ rtPc[s] = "breading"
    /\ read' = doneRead(wrapConn[s])
    /\ cntRecv' = [cntRecv EXCEPT ![wrapConn[s]] = @ + 1]
    /\ rtPc' = [rtPc EXCEPT ![s] = "body"]
    /\ UNCHANGED <<unitVars, reclosed, chanVars, sdVars, alloc, write, cntSent, relCount, drainPc,
                   rtConn, rtErr, ctxDone, rqBody, wrapConn, drained, closes, nput>>

\* the read returned an error: wrap.drained = true
BodyReadFail(s) ==
    /\ rtPc[s] = "breading"
    /\ read' = doneRead(wrapConn[s])
    /\ drained' = [drained EXCEPT ![s] = TRUE]
    /\ rtPc' = [rtPc EXCEPT ![s] = "body"]
    /\ UNCHANGED <<unitVars, reclosed, chanVars, sdVars, alloc, write, cntSent, cntRecv, relCount,
                   drainPc, rtConn, rtErr, ctxDone, rqBody, wrapConn, closes, nput>>

\* wrap.body.Read returned io.EOF (the body is complete): wrap.drained = true
BodyReadEOF(s) ==
    /\ rtPc[s] = "body"
    /\ ~drained[s]
    /\ drained' = [drained EXCEPT ![s] = TRUE]
    /\ UNCHANGED <<unitVars, reclosed, chanVars, sdVars, connVars, drainPc, rtPc, rtConn, rtErr,
                   ctxDone, rqBody, wrapConn, closes, nput>>

\* faulty variant: the drained path closes the body and forgets conn.put()
BodyCloseDrained_NoPut(s) ==
    /\ rtPc[s] = "body"
    /\ drained[s]
    /\ closes' = [closes EXCEPT ![s] = @ + 1]
    /\ rtPc' = [rtPc EXCEPT ![s] = "done"]
    /\ UNCHANGED <<unitVars, reclosed, chanVars, sdVars, connVars, drainPc, rtConn, rtErr,
                   ctxDone, rqBody, wrapConn, drained, nput>>

\* usbResponseBodyWrapper.Close with wrap.drained: wrap.body.Close() and
\* wrap.conn.put() in the caller's goroutine
BodyCloseDrained(s) ==
    /\ rtPc[s] = "body"
    /\ drained[s]
    /\ closes' = [closes EXCEPT ![s] = @ + 1]
    /\ rtPc' = [rtPc EXCEPT ![s] = "put"]
    /\ UNCHANGED <<unitVars, reclosed, chanVars, sdVars, connVars, drainPc, rtConn, rtErr, ctxDone,
                   rqBody, wrapConn, drained, nput>>

\* faulty variant: the goroutine is spawned and the connection released at once
BodyCloseAbandoned_PutNow(s) ==
    /\ rtPc[s] = "body"
    /\ ~drained[s]
    /\ drainPc[wrapConn[s]] = "none"
    /\ closes' = [closes EXCEPT ![s] = @ + 1]
    /\ drainPc' = [drainPc EXCEPT ![wrapConn[s]] = "copy"]
    /\ rtPc' = [rtPc EXCEPT ![s] = "put"]
    /\ UNCHANGED <<unitVars, reclosed, chanVars, sdVars, connVars, rtConn, rtErr, ctxDone,
                   rqBody, wrapConn, drained, nput>>

\* faulty variant: Close reads the rest of the body itself
BodyCloseAbandoned_Sync(s) ==
    /\ rtPc[s] = "body"
    /\ ~drained[s]
    /\ cntRecv[wrapConn[s]] < MaxRecv
    /\ closes' = [closes EXCEPT ![s] = 1]
    /\ read' = beginRead(wrapConn[s])
    /\ rtPc' = [rtPc EXCEPT ![s] = "breading"]
    /\ UNCHANGED <<unitVars, reclosed, chanVars, sdVars, alloc, write, cntSent, cntRecv, relCount,
                   drainPc, rtConn, rtErr, ctxDone, rqBody, wrapConn, drained, nput>>

\* usbResponseBodyWrapper.Close without wrap.drained: go func() { io.Copy;
\* wrap.body.Close(); wrap.conn.put() }, and Close returns nil at once
BodyCloseAbandoned(s) ==
    /\ rtPc[s] = "body"
    /\ ~drained[s]
    /\ drainPc[wrapConn[s]] = "none"
    /\ closes' = [closes EXCEPT ![s] = @ + 1]
    /\ drainPc' = [drainPc EXCEPT ![wrapConn[s]] = "copy"]
    /\ rtPc' = [rtPc EXCEPT ![s] = "done"]
    /\ UNCHANGED <<unitVars, reclosed, chanVars, sdVars, connVars, rtConn, rtErr, ctxDone, rqBody,
                   wrapConn, drained, nput>>

usbResponseBodyWrapperClose(s) ==
    \/ BodyCloseDrained(s)
    \/ BodyCloseAbandoned(s)

\* the consumer calls Close once more on a body it has read to the end and
\* closed: wrap.drained is still set, so wrap.conn.put() runs again
BodyCloseAgain(s) ==
    /\ rtPc[s] = "done"
    /\ wrapConn[s] # NoConn
    /\ drained[s]
    /\ closes[s] >= 1
    /\ reclosed < MaxReclose
    /\ reclosed' = reclosed + 1
    /\ closes' = [closes EXCEPT ![s] = @ + 1]
    /\ rtPc' = [rtPc EXCEPT ![s] = "put"]
    /\ UNCHANGED <<unitVars, chanVars, sdVars, connVars, drainPc, rtConn, rtErr,
                   ctxDone, rqBody, wrapConn, drained, nput>>

\* ------------------------------------------------------ drain goroutine
\* io.Copy(ioutil.Discard, wrap.body) reads on: usbConn.Read is entered
DrainReadBegin(c) ==
    /\ drainPc[c] = "copy"
    /\ cntRecv[c] < MaxRecv
    /\ read' = beginRead(c)
    /\ drainPc' = [drainPc EXCEPT ![c] = "reading"]
    /\ UNCHANGED <<unitVars, reclosed, chanVars, sdVars, rtVars, alloc, write, cntSent, cntRecv,
                   relCount>>

DrainReadOk(c) ==
    /\ drainPc[c] = "reading"
    /\ read' = doneRead(c)
    /\ cntRecv' = [cntRecv EXCEPT ![c] = @ + 1]
    /\ drainPc' = [drainPc EXCEPT ![c] = "copy"]
    /\ UNCHANGED <<unitVars, reclosed, chanVars, sdVars, rtVars, alloc, write, cntSent, relCount>>

\* a read error ends io.Copy; the goroutine goes on to Close and put
DrainReadFail(c) ==
    /\ drainPc[c] = "reading"
    /\ read' = doneRead(c)
    /\ drainPc' = [drainPc EXCEPT ![c] = "put"]
    /\ UNCHANGED <<unitVars, reclosed, chanVars, sdVars, rtVars, alloc, write, cntSent, cntRecv,
                   relCount>>

\* io.Copy reached the end of the body
DrainEOF(c) ==
    /\ drainPc[c] = "copy"
    /\ drainPc' = [drainPc EXCEPT ![c] = "put"]
    /\ UNCHANGED <<unitVars, reclosed, chanVars, sdVars, rtVars, connVars>>

\* faulty variant: the goroutine ends after io.Copy without conn.put()
DrainPut_NoPut(c) ==
    /\ drainPc[c] = "put"
    /\ drainPc' = [drainPc EXCEPT ![c] = "none"]
    /\ UNCHANGED <<unitVars, reclosed, chanVars, sdVars, rtVars, connVars>>

\* wrap.body.Close(); wrap.conn.put()
DrainPut(c) ==
    /\ drainPc[c] = "put"
    /\ put(c)
    /\ drainPc' = [drainPc EXCEPT ![c] = putNext]
    /\ UNCHANGED <<unitVars, reclosed, sdVars, rtVars>>

DrainSend(c) ==
    /\ drainPc[c] = "send"
    /\ Len(connPool) < NConn
    /\ connPool' = Append(connPool, c)
    /\ drainPc' = [drainPc EXCEPT ![c] = "signal"]
    /\ UNCHANGED <<unitVars, reclosed, shutdown, sdVars, rtVars, connVars>>

DrainSignal(c) ==
    /\ drainPc[c] = "signal"
    /\ connReleasedSend
    /\ drainPc' = [drainPc EXCEPT ![c] = "none"]
    /\ UNCHANGED <<unitVars, reclosed, chanVars, sdErr, rtVars, connVars>>

Drain(c) ==
    \/ DrainReadBegin(c)
    \/ DrainReadOk(c)
    \/ DrainReadFail(c)
    \/ DrainEOF(c)
    \/ DrainPut(c)
    \/ DrainSignal(c)

\* ------------------------------------------------------------ Shutdown
\* Shutdown is called: close(transport.shutdown)
ShutdownCall ==
    /\ sdPc = "idle"
    /\ shutdown' = TRUE
    /\ sdPc' = "check"
    /\ UNCHANGED <<unitVars, reclosed, connPool, sdErr, rtVars, connVars, drainPc>>

\* n := transport.connInUse(); n == 0 returns nil, otherwise Shutdown logs n
\* and goes on to its select
ShutdownCheck ==
    /\ sdPc = "check"
    /\ sdPc' = IF connInUse = 0 THEN "done" ELSE "select"
    /\ UNCHANGED <<unitVars, reclosed, chanVars, sdErr, rtVars, connVars, drainPc>>

\* Shutdown enters its select with no case ready and parks: no sender ever
\* waits on connReleased, as put's send is non-blocking
ShutdownSelect ==
    /\ sdPc = "select"
    /\ sdPc' = "parked"
    /\ UNCHANGED <<unitVars, reclosed, chanVars, sdErr, rtVars, connVars, drainPc>>

\* select, case <-ctx.Done(): the context given to Shutdown is cancelled or
\* its deadline passes while Shutdown waits; return ctx.Err()
ShutdownTimeout ==
    /\ sdPc = "parked"
    /\ sdPc' = "done"
    /\ sdErr' = ErrCtx
    /\ UNCHANGED <<unitVars, reclosed, chanVars, rtVars, connVars, drainPc>>

Shutdown ==
    \/ ShutdownCall
    \/ ShutdownCheck
    \/ ShutdownSelect
    \/ ShutdownTimeout

\* --------------------------------------------------------------- Close
\* faulty variant: the device is reset whether or not a connection is in use
CloseCall_AlwaysReset ==
    /\ clPc = "idle"
    /\ clInUse' = connInUse
    /\ usbLog' = Append(usbLog, Reset)
    /\ clIdx' = 1
    /\ clPc' = "destroy"
    /\ UNCHANGED <<mainVars, extVars, shapeVars, readVars, connList, newVars>>

\* Close is called: if transport.connInUse() > 0 { transport.dev.Reset() }
CloseCall ==
    /\ clPc = "idle"
    /\ clInUse' = connInUse
    /\ usbLog' = IF connInUse > 0 THEN Append(usbLog, Reset) ELSE usbLog
    /\ clIdx' = 1
    /\ clPc' = "destroy"
    /\ UNCHANGED <<mainVars, extVars, shapeVars, readVars, connList, newVars>>

\* for _, conn := range transport.connList { conn.destroy() }
CloseDestroy ==
    /\ clPc = "destroy"
    /\ clIdx <= Len(connList)
    /\ usbLog' = Append(usbLog, destroy(connList[clIdx]))
    /\ clIdx' = clIdx + 1
    /\ UNCHANGED <<mainVars, extVars, shapeVars, readVars, connList, newVars, clPc, clInUse>>

\* the loop is over: transport.dev.Close()
CloseDev ==
    /\ clPc = "destroy"
    /\ clIdx > Len(connList)
    /\ usbLog' = Append(usbLog, DevClose)
    /\ clPc' = "done"
    /\ UNCHANGED <<mainVars, extVars, shapeVars, readVars, connList, newVars, clIdx, clInUse>>

Close ==
    \/ CloseCall
    \/ CloseDestroy
    \/ CloseDev

\* ----------------------------------------------------- NewUsbTransport
\* the devices NewUsbTransport is tried on: nIf interfaces, and what fails:
\* nothing, UsbOpenDevice, dev.UsbDeviceInfo, or the claim of interface failAt
Descs ==
    {d \in [nIf : 0..MaxIf, fail : {"none", "open", "info", "claim"},
            failAt : 0..MaxIf] :
        IF d.fail = "claim" THEN 1 <= d.failAt /\ d.failAt <= d.nIf
        ELSE d.failAt = 0}

\* NewUsbTransport is called with a device descriptor
InitNew ==
    /\ InitIdle
    /\ CloseOff
    /\ ShapeOff
    /\ ReadOff
    /\ ExtOff
    /\ connPool = <<>>
    /\ connList = <<>>
    /\ usbLog = <<>>
    /\ nwPc = "open"
    /\ nwDesc \in Descs
    /\ nwRet = "none"

\* dev, err := UsbOpenDevice(desc); on success the transport is created
NewOpenDevice ==
    /\ nwPc = "open"
    /\ IF nwDesc.fail = "open"
       THEN nwPc' = "done" /\ nwRet' = "error"
       ELSE nwPc' = "info" /\ nwRet' = nwRet
    /\ UNCHANGED <<mainVars, extVars, shapeVars, readVars, connList, usbLog, closeVars, nwDesc>>

\* transport.info, err = dev.UsbDeviceInfo(); on error dev.Close()
NewDeviceInfo ==
    /\ nwPc = "info"
    /\ IF nwDesc.fail = "info"
       THEN /\ usbLog' = Append(usbLog, DevClose)
            /\ nwPc' = "done"
            /\ nwRet' = "error"
       ELSE /\ nwPc' = "conns"
            /\ UNCHANGED <<usbLog, nwRet>>
    /\ UNCHANGED <<mainVars, extVars, shapeVars, readVars, connList, closeVars, nwDesc>>

\* one turn of the loop over desc.IfAddrs: openUsbConn(i, ifaddr); on error
\* goto ERROR, else transport.connPool <- conn and append to connList
NewOpenConn ==
    /\ nwPc = "conns"
    /\ Len(connList) < nwDesc.nIf
    /\ IF nwDesc.fail = "claim" /\ nwDesc.failAt = Len(connList) + 1
       THEN /\ nwPc' = "cleanup"
            /\ UNCHANGED <<connPool, connList>>
       ELSE /\ connPool' = Append(connPool, Len(connList) + 1)
            /\ connList' = Append(connList, Len(connList) + 1)
            /\ UNCHANGED nwPc
    /\ UNCHANGED <<shutdown, sdVars, rtVars, connVars, drainPc, reclosed, extVars,
                   shapeVars, readVars, usbLog, closeVars, nwDesc, nwRet>>

\* the loop is over: return transport, nil
NewReturn ==
    /\ nwPc = "conns"
    /\ Len(connList) = nwDesc.nIf
    /\ nwPc' = "done"
    /\ nwRet' = "transport"
    /\ UNCHANGED <<mainVars, extVars, shapeVars, readVars, connList, usbLog, closeVars, nwDesc>>

\* faulty variant: ERROR closes the device without destroying the connections
NewCleanup_NoDestroy ==
    /\ nwPc = "cleanup"
    /\ usbLog' = Append(usbLog, DevClose)
    /\ nwPc' = "done"
    /\ nwRet' = "error"
    /\ UNCHANGED <<mainVars, extVars, shapeVars, readVars, connList, closeVars, nwDesc>>

\* ERROR: for _, conn := range transport.connList { conn.destroy() }, then
\* dev.Close() and return nil, err
NewCleanup ==
    /\ nwPc = "cleanup"
    /\ LET destroyed == Cardinality({i \in 1..Len(usbLog) : usbLog[i].op = "destroy"})
       IN  IF destroyed < Len(connList)
           THEN /\ usbLog' = Append(usbLog, destroy(connList[destroyed + 1]))
                /\ UNCHANGED <<nwPc, nwRet>>
           ELSE /\ usbLog' = Append(usbLog, DevClose)
                /\ nwPc' = "done"
                /\ nwRet' = "error"
    /\ UNCHANGED <<mainVars, extVars, shapeVars, readVars, connList, closeVars, nwDesc>>

NewUsbTransport ==
    \/ NewOpenDevice
    \/ NewDeviceInfo
    \/ NewOpenConn
    \/ NewReturn
    \/ NewCleanup

SpecNew == InitNew /\ [][NewUsbTransport]_vars

\* ------------------------------------------- usbRequestBodyWrapper
\* usbRequestBodyWrapper.Read: wrap.body.Read returns (n, err), n bytes with or
\* without an error; count grows by n, an error sets drained
WrapRead ==
    /\ \E n \in 0..MaxChunk, err \in {nil, "EOF", ErrBody} :
         /\ wbCount + n <= MaxBody
         /\ wbIn' = [n |-> n, err |-> err]
         /\ wbCount' = wbCount + n
         /\ wbDrained' = IF err # nil THEN TRUE ELSE wbDrained
         /\ wbRet' = [n |-> n, err |-> usbRequestBodyRead(err)]
    /\ UNCHANGED <<mainVars, shapeVars, readVars, lifeVars, sessVars, logVars, wbCloseIn,
                   wbCloseRet>>

\* usbRequestBodyWrapper.Close: return wrap.body.Close()
WrapClose ==
    /\ \E r \in {nil, ErrBody} :
         /\ wbCloseIn' = r
         /\ wbCloseRet' = r
    /\ UNCHANGED <<mainVars, shapeVars, readVars, lifeVars, sessVars, logVars, wbCount,
                   wbDrained, wbIn, wbRet>>

NextWrap ==
    \/ WrapRead
    \/ WrapClose

SpecWrap == Init /\ [][NextWrap]_vars

\* ------------------------------------------------- RoundTrip: session id
\* int32 addition of d = 1 or d = -1: the result wraps around
AddInt32(x, d) ==
    IF d > 0 /\ x > MaxInt32 - d THEN MinInt32 + (d - 1 - (MaxInt32 - x))
    ELSE IF d < 0 /\ x < MinInt32 - d THEN MaxInt32 - ((-d) - 1 - (x - MinInt32))
    ELSE x + d

\* Go's x % m for m > 0: the remainder of the division truncated towards zero,
\* it has the sign of x
Rem(x, m) ==
    IF x >= 0 \/ x % m = 0 THEN x % m ELSE (x % m) - m

\* the values the counter has when the calls looked at are made: a fresh
\* process, around a multiple of 1000, around the wrap of the int32 and past it
StartIDs ==
    {0, 1, SessionMod - 1, SessionMod, MaxInt32 - 2, MaxInt32 - 1, MaxInt32,
     MinInt32, MinInt32 + 1, -SessionMod - 1, -SessionMod, -2, -1}

InitSession ==
    /\ InitTransport
    /\ CloseOff
    /\ ShapeOff
    /\ ReadOff
    /\ WrapOff
    /\ LogOff
    /\ httpSessionID \in StartIDs
    /\ sessLog = <<>>

\* RoundTrip: session := int(atomic.AddInt32(&httpSessionID, 1)-1) % 1000
\* the add is one atomic step, the rest works on the caller's own values
RoundTripSession(s) ==
    /\ Len(sessLog) < MaxCalls
    /\ LET new == AddInt32(httpSessionID, 1)
           old == AddInt32(new, -1)
       IN  /\ httpSessionID' = new
           /\ sessLog' = Append(sessLog, [caller |-> s, counter |-> old,
                                           session |-> Rem(old, SessionMod)])
    /\ UNCHANGED <<mainVars, shapeVars, readVars, lifeVars, wrapVars, logVars>>

NextSession == \E s \in Sessions : RoundTripSession(s)

SpecSession == InitSession /\ [][NextSession]_vars

\* -------------------------------------------------------------- Logger
\* Goroutines write to one Logger: messages built with Begin, Add and Commit,
\* single lines added to the Logger itself (its root message), Pause and
\* Resume.  The Logger has no carbon copies and every line added has a level
\* the Logger writes.  Whatever Flush and appendLineBuf do between
\* lock.Lock() and lock.Unlock() touches only what the lock protects, and is
\* one step, except that the loop that writes the lines is one step per line:
\* Pause and Resume change Logger.paused without the lock.
LogLockFree == \A t \in LogTasks : lgPc[t] # "write"

\* where Flush goes on once the root message has its lines: it returns if the
\* root message is empty, the logger is paused or has no destination, else
\* it writes
FlushNext(root) ==
    IF root = <<>> \/ lgPaused # 0 \/ ~lgOutSet THEN "idle" ELSE "write"

\* faulty variant: the first line of the message goes in front of the lines
\* the parent has
appendLines_Split(parent, lines) ==
    IF Len(lines) > 1 THEN <<Head(lines)>> \o parent \o Tail(lines)
    ELSE parent \o lines

\* Flush: msg.parent.lines = append(msg.parent.lines, msg.lines...)
appendLines(parent, lines) == parent \o lines

\* a Logger whose destination is set or not yet set
InitLog ==
    /\ InitTransport
    /\ CloseOff
    /\ ShapeOff
    /\ ReadOff
    /\ WrapOff
    /\ SessOff
    /\ LogIdle
    /\ lgOutSet \in BOOLEAN

\* msg := log.Begin()
LogBegin(t) ==
    /\ lgPc[t] = "idle"
    /\ lgMade[t].msgs < MaxMsgs
    /\ lgMade' = [lgMade EXCEPT ![t].msgs = @ + 1]
    /\ lgMsg' = [lgMsg EXCEPT ![t] = <<>>]
    /\ lgPc' = [lgPc EXCEPT ![t] = "msg"]
    /\ UNCHANGED <<mainVars, shapeVars, readVars, lifeVars, wrapVars, sessVars,
                   lgRoot, lgOut, lgPaused, lgOutSet, lgNPause>>

\* msg.Add on a child message: appendLineBuf appends to msg.lines, no lock
LogAdd(t) ==
    /\ lgPc[t] = "msg"
    /\ Len(lgMsg[t]) < MaxLines
    /\ lgMsg' = [lgMsg EXCEPT ![t] =
                    Append(@, [task |-> t, msg |-> lgMade[t].msgs, idx |-> Len(@) + 1])]
    /\ UNCHANGED <<mainVars, shapeVars, readVars, lifeVars, wrapVars, sessVars,
                   lgPc, lgRoot, lgOut, lgPaused, lgOutSet, lgMade, lgNPause>>

\* msg.Commit(): Flush of a child of the root message, up to its loop: under
\* the lock an empty message is ignored, else its lines are appended to the
\* root message and Flush goes on with the root message; then msg.free()
LogCommit(t) ==
    /\ lgPc[t] = "msg"
    /\ LogLockFree
    /\ IF lgMsg[t] = <<>>
       THEN /\ lgPc' = [lgPc EXCEPT ![t] = "idle"]
            /\ UNCHANGED <<lgRoot, lgMsg>>
       ELSE /\ lgRoot' = appendLines(lgRoot, lgMsg[t])
            /\ lgMsg' = [lgMsg EXCEPT ![t] = <<>>]
            /\ lgPc' = [lgPc EXCEPT ![t] = FlushNext(lgRoot')]
    /\ UNCHANGED <<mainVars, shapeVars, readVars, lifeVars, wrapVars, sessVars,
                   lgOut, lgPaused, lgOutSet, lgMade, lgNPause>>

\* log.Add on the Logger itself: appendLineBuf with msg.parent == nil appends
\* to the root message under the lock, unlocks, and then calls msg.Flush()
LogLine(t) ==
    /\ lgPc[t] = "idle"
    /\ lgMade[t].lines < MaxDirect
    /\ LogLockFree
    /\ lgMade' = [lgMade EXCEPT ![t].lines = @ + 1]
    /\ lgRoot' = Append(lgRoot, [task |-> t, msg |-> 0, idx |-> lgMade[t].lines + 1])
    /\ lgPc' = [lgPc EXCEPT ![t] = "flush"]
    /\ UNCHANGED <<mainVars, shapeVars, readVars, lifeVars, wrapVars, sessVars,
                   lgMsg, lgOut, lgPaused, lgOutSet, lgNPause>>

\* Flush of the root message, up to its loop
LogFlush(t) ==
    /\ lgPc[t] = "flush"
    /\ LogLockFree
    /\ lgPc' = [lgPc EXCEPT ![t] = FlushNext(lgRoot)]
    /\ UNCHANGED <<mainVars, shapeVars, readVars, lifeVars, wrapVars, sessVars,
                   lgMsg, lgRoot, lgOut, lgPaused, lgOutSet, lgMade, lgNPause>>

\* one turn of Flush's loop over msg.lines: msg.logger.outhook writes the
\* line; after the last line msg.lines is reset and the lock is released
LogWrite(t) ==
    /\ lgPc[t] = "write"
    /\ lgOut' = Append(lgOut, Head(lgRoot))
    /\ lgRoot' = Tail(lgRoot)
    /\ lgPc' = [lgPc EXCEPT ![t] = IF Len(lgRoot) = 1 THEN "idle" ELSE "write"]
    /\ UNCHANGED <<mainVars, shapeVars, readVars, lifeVars, wrapVars, sessVars,
                   lgMsg, lgPaused, lgOutSet, lgMade, lgNPause>>

\* Pause: atomic.AddInt32(&l.paused, 1)
LogPause(t) ==
    /\ lgPc[t] \in {"idle", "msg"}
    /\ lgNPause < MaxPause
    /\ lgNPause' = lgNPause + 1
    /\ lgPaused' = lgPaused + 1
    /\ UNCHANGED <<mainVars, shapeVars, readVars, lifeVars, wrapVars, sessVars,
                   lgPc, lgMsg, lgRoot, lgOut, lgOutSet, lgMade>>

\* Resume, called for an earlier Pause:
\* if atomic.AddInt32(&l.paused, -1) == 0 { l.LogMessage.Flush() }
LogResume(t) ==
    /\ lgPc[t] = "idle"
    /\ lgPaused > 0
    /\ lgPaused' = lgPaused - 1
    /\ lgPc' = [lgPc EXCEPT ![t] = IF lgPaused' = 0 THEN "flush" ELSE "idle"]
    /\ UNCHANGED <<mainVars, shapeVars, readVars, lifeVars, wrapVars, sessVars,
                   lgMsg, lgRoot, lgOut, lgOutSet, lgMade, lgNPause>>

NextLog ==
    \E t \in LogTasks :
        \/ LogBegin(t)
        \/ LogAdd(t)
        \/ LogCommit(t)
        \/ LogLine(t)
        \/ LogFlush(t)
        \/ LogWrite(t)
        \/ LogPause(t)
        \/ LogResume(t)

SpecLog == InitLog /\ [][NextLog]_vars

\* ------------------------------------------------------ specifications
\* RoundTripWithSession past usbConnGet: outreq.Write(conn), http.ReadResponse
Exchange(s) ==
    \/ ReqBodyRead(s)
    \/ ConnWriteBegin(s)
    \/ ConnWriteOk(s)
    \/ ConnWriteFail(s)
    \/ WriteDone(s)
    \/ RespReadBegin(s)
    \/ RespReadOk(s)
    \/ RespReadFail(s)
    \/ ParseFail(s)
    \/ ParseOk(s)

RoundTripWithSession(s) ==
    \/ RoundTrip(s)
    \/ usbConnGet(s)
    \/ Exchange(s)

Consumer(s) ==
    \/ BodyReadBegin(s)
    \/ BodyReadOk(s)
    \/ BodyReadFail(s)
    \/ BodyReadEOF(s)
    \/ usbResponseBodyWrapperClose(s)

Next ==
    \/ \E s \in Sessions : RoundTripWithSession(s)
    \/ \E s \in Sessions : Consumer(s)
    \/ \E s \in Sessions : SessPut(s) \/ SessSignal(s)
    \/ \E s \in Sessions : CancelRequest(s)
    \/ \E c \in Conns : Drain(c)
    \/ Shutdown

\* every response body is closed once
Spec == Init /\ [][Next]_vars

\* the drain goroutine is scheduled and the device keeps delivering
FairSpec == Spec /\ \A c \in Conns : WF_vars(Drain(c))

\* callers, consumers and drain goroutines, and a Shutdown that has closed
\* transport.shutdown and waits.
\* a goroutine blocked in usbConnGet's select is woken when one of its cases
\* becomes ready, and among the waiters of connPool each gets its turn (strong
\* fairness of the acquire); callers, consumers and drain goroutines are
\* scheduled, the device answers, and every consumer closes its body
NextGet ==
    \/ \E s \in Sessions : RoundTripWithSession(s)
    \/ \E s \in Sessions : Consumer(s)
    \/ \E s \in Sessions : SessPut(s) \/ SessSignal(s)
    \/ \E s \in Sessions : CancelRequest(s)
    \/ \E c \in Conns : Drain(c)
    \/ ShutdownCall

FairGetSpec ==
    /\ Init /\ [][NextGet]_vars
    /\ \A s \in Sessions : SF_vars(usbConnGet(s))
    /\ \A s \in Sessions :
          WF_vars(Exchange(s) \/ Consumer(s) \/ SessPut(s) \/ SessSignal(s))
    /\ \A c \in Conns : WF_vars(Drain(c))

\* round-trips and body consumers that may also call Close again on a body they
\* have read to the end and closed (no Shutdown, no cancellation: of usbConnGet's
\* select only the connPool case is ever ready)
NextReclose ==
    \/ \E s \in Sessions : RoundTrip(s) \/ usbConnGetConn(s) \/ Exchange(s)
    \/ \E s \in Sessions : Consumer(s)
    \/ \E s \in Sessions : SessPut(s) \/ SessSignal(s)
    \/ \E c \in Conns : Drain(c)
    \/ \E s \in Sessions : BodyCloseAgain(s) \/ SessSend(s)
    \/ \E c \in Conns : DrainSend(c)

SpecReclose == Init /\ [][NextReclose]_vars

\* round-trips, body consumers and drain goroutines, and a caller of Close
NextClose ==
    \/ \E s \in Sessions : RoundTrip(s) \/ usbConnGetConn(s) \/ Exchange(s)
    \/ \E s \in Sessions : Consumer(s)
    \/ \E s \in Sessions : SessPut(s) \/ SessSignal(s)
    \/ \E c \in Conns : Drain(c)
    \/ Close

SpecClose == Init /\ [][NextClose]_vars

\* ------------------------------------------------------------ properties
\* callers whose goroutine holds connection c: between usbConnGet's receive
\* and put's send to connPool
Holders(c) ==
    {s \in Sessions : rtConn[s] = c /\ rtPc[s] \in
        {"write", "writing", "read", "reading", "body", "breading", "put", "send"}}

\* the drain goroutine of c holds it until its put has sent it to connPool
DrainHolds(c) == IF drainPc[c] \in {"copy", "reading", "put", "send"} THEN 1 ELSE 0

\* no put is between its send to connPool and its signal on connReleased
NoSignalPending ==
    /\ \A s \in Sessions : rtPc[s] # "signal"
    /\ \A c \in Conns : drainPc[c] # "signal"

\* C1: once every in-flight connection is back in connPool (and no put has
\* its released signal still to send), Shutdown is not left waiting in its
\* select for a released signal: it has returned or is about to re-count.
C1_ShutdownNotLeftWaiting ==
    ~(sdPc = "parked" /\ connInUse = 0 /\ NoSignalPending)

\* C2: once Shutdown has closed transport.shutdown, every usbConnGet that
\* returns fails with ErrShutdown and hands out no connection.
C2_NoAcquireAfterShutdown ==
    [][\A s \in Sessions :
          (shutdown /\ rtPc[s] = "get" /\ rtPc'[s] # "get")
              => (rtErr'[s] = ErrShutdown /\ rtConn'[s] = NoConn)]_vars

\* C3: usbConnGet gives shutdown priority over cancellation and cancellation
\* priority over an available connection.
C3_SelectPriority ==
    [][\A s \in Sessions :
          (rtPc[s] = "get" /\ rtPc'[s] # "get")
              => IF shutdown THEN rtErr'[s] = ErrShutdown
                 ELSE IF ctxDone[s] THEN rtErr'[s] = ErrCtx
                 ELSE rtPc'[s] = "write" /\ rtConn'[s] = Head(connPool)]_vars

C8_CancelOnlyAtAcquire ==
    \A s \in Sessions :
        /\ rtErr[s] = ErrCtx => rtConn[s] = NoConn
        /\ rtConn[s] # NoConn => rtErr[s] \in {nil, ErrIO, ErrParse}
        /\ (ctxDone[s] /\ rtPc[s] \in {"write", "writing", "read", "reading"})
              => (rtErr[s] = nil /\ s \in Holders(rtConn[s]) /\ ~InPool(rtConn[s]))

C8_Witness ==
    \E s \in Sessions :
        /\ ctxDone[s] /\ rtPc[s] = "reading"
        /\ cntSent[rtConn[s]] >= 1 /\ cntRecv[rtConn[s]] >= 1

\* C9: a usbConnGet that fails returns ErrShutdown (only after shutdown) or the
\* context's error (only after cancellation), and changes neither connPool nor
\* the state tracker nor any connection's counters.
C9_FailedAcquireTouchesNothing ==
    [][\A s \in Sessions :
          (rtPc[s] = "get" /\ rtPc'[s] = "done")
              => /\ rtErr'[s] \in {ErrShutdown, ErrCtx}
                 /\ rtErr'[s] = ErrShutdown => shutdown
                 /\ rtErr'[s] = ErrCtx => ctxDone[s]
                 /\ rtConn'[s] = NoConn /\ wrapConn'[s] = NoConn
                 /\ UNCHANGED <<connPool, connVars, drainPc>>]_vars

C9_Witness ==
    \E s, u \in Sessions :
        /\ rtPc[s] = "done" /\ rtErr[s] = ErrCtx /\ Len(connPool) = 0
        /\ rtPc[u] = "done" /\ rtErr[u] = ErrShutdown

\* C10: when RoundTripWithSession has returned an I/O or parse error it has
\* called conn.put() exactly once, no response body wrapper exists, and the
\* connection is out of the caller's hands: in connPool or allocated anew.
C10_ErrorPathReleasesOnce ==
    \A s \in Sessions :
        (rtPc[s] = "done" /\ rtErr[s] \in {ErrIO, ErrParse})
            => /\ nput[s] = 1
               /\ wrapConn[s] = NoConn
               /\ rtConn[s] # NoConn
               /\ InPool(rtConn[s]) \/ alloc[rtConn[s]] = 1
    
C10_Witness ==
    \E s, u \in Sessions :
        /\ rtPc[s] = "done" /\ rtErr[s] = ErrParse /\ InPool(rtConn[s])
        /\ rtPc[u] = "done" /\ rtErr[u] = ErrIO /\ InPool(rtConn[u])

\* C11: a request that declares a content length L with 0 < L < Threshold
\* reaches usbConnGet only with its body read into a buffer of L bytes (it
\* fails before usbConnGet exactly when the body delivers fewer than L bytes),
\* and what is written carries Content-Length: L and no chunked framing.
C11_SmallBodyPrefetched ==
    (0 < rq.ContentLength /\ rq.ContentLength < Threshold /\ shPc # "call")
        => /\ (shPc = "failed") <=> (rq.avail < rq.ContentLength)
           /\ shPc \in {"get", "write", "written"} =>
                 /\ outreq.Body = "buffer"
                 /\ outreq.buffered = rq.ContentLength
                 /\ outreq.ContentLength = rq.ContentLength
           /\ shPc = "written" =>
                 /\ wire.framing = "Content-Length"
                 /\ wire.length = rq.ContentLength

C11_Witness ==
    /\ shPc = "written"
    /\ rq.ContentLength = Threshold - 1
    /\ wire.framing = "Content-Length" /\ wire.length = Threshold - 1

\* C12: a request that declares a content length >= Threshold goes out with
\* ContentLength -1, its body streamed, and is written chunked without a
\* Content-Length; a request with unknown or zero length keeps its length and
\* its body is not prefetched.
C12_LargeBodyChunked ==
    /\ (rq.ContentLength >= Threshold /\ shPc # "call")
          => /\ shPc \in {"get", "write", "written"}
             /\ outreq.ContentLength = -1
             /\ outreq.Body = "wrapped" /\ outreq.buffered = 0
             /\ shPc = "written" => (wire.framing = "chunked" /\ wire.length = 0)
    /\ (rq.ContentLength <= 0 /\ shPc \notin {"off", "call"})
          => /\ shPc \in {"get", "write", "written"}
             /\ outreq.ContentLength = rq.ContentLength
             /\ outreq.Body = (IF rq.Body = "nil" THEN "nil" ELSE "wrapped")
             /\ outreq.buffered = 0

C12_Witness ==
    /\ shPc = "written"
    /\ rq.ContentLength = Threshold
    /\ wire.framing = "chunked"

\* C13: whatever Expect, Connection and User-Agent the request came with, from
\* the header edit on there is no Expect header, Connection is close, the
\* request is marked Close, User-Agent is the caller's or, if it had none,
\* "ipp-usb"; and that is what is written.
C13_NoExpectNoKeepAlive ==
    shPc \in {"get", "write", "written", "failed"}
        => /\ hdr.Expect = ""
           /\ hdr.Connection = "close"
           /\ outreq.Close
           /\ hdr.UserAgent = (IF rq.Header.UserAgent = "" THEN "ipp-usb"
                               ELSE rq.Header.UserAgent)
           /\ shPc = "written" => wire.Header = hdr

C13_Witness ==
    /\ shPc = "written"
    /\ rq.Header.Expect = "100-continue"
    /\ rq.Header.Connection = "keep-alive"
    /\ rq.Header.UserAgent = "CUPS" /\ ~rq.Close
    /\ wire.Header = [Expect |-> "", Connection |-> "close", UserAgent |-> "CUPS"]

\* C14: usbConn.Read never returns (0, nil); it returns the result of its last
\* transfer; and for the k transfers that returned (0, nil) it has called
\* ClearHalt k times and slept k times when it tries again or returns.
C14_ZeroReadsRetried ==
    /\ rdPc = "ret" => /\ rdRet.n # 0 \/ rdRet.err # nil
                       /\ rdRet = rdLast
    /\ rdPc \in {"recv", "ret"} => (rdHalt = rdZero /\ Len(rdSlept) = rdZero)
    /\ rdPc = "clear" => (rdLast = [n |-> 0, err |-> nil] /\ rdHalt = rdZero - 1)
    /\ rdPc = "sleep" => (rdHalt = rdZero /\ Len(rdSlept) = rdZero - 1)

C14_Witness ==
    /\ rdPc = "ret"
    /\ rdZero = 3 /\ rdHalt = 3
    /\ rdRet = [n |-> rdLen, err |-> nil]

\* C15: the k-th sleep of one Read call lasts min(100 * 2^(k-1), 1000) ms, no
\* sleep exceeds 1000 ms, and a call that has not slept yet has a backoff of
\* 100 ms.
C15_BackoffSchedule ==
    /\ \A k \in 1..Len(rdSlept) :
          LET b == BackoffStart * 2^(k - 1)
          IN  /\ rdSlept[k] = (IF b < BackoffMax THEN b ELSE BackoffMax)
              /\ rdSlept[k] <= BackoffMax
    /\ (rdPc # "idle" /\ rdSlept = <<>>) => rdBackoff = BackoffStart

C15_Witness ==
    /\ rdPc = "ret"
    /\ Len(rdSlept) >= 6
    /\ SubSeq(rdSlept, 1, 6) = <<100, 200, 400, 800, 1000, 1000>>

\* C16: a buffer of n >= 512 bytes is handed to iface.Recv cut to the largest
\* multiple of 512 that is <= n (not zero), a smaller one as it is.
C16_RecvBufferAligned ==
    rdPc # "idle"
        => IF rdBuf >= Alignment
           THEN /\ rdLen % Alignment = 0
                /\ 0 < rdLen /\ rdLen <= rdBuf
                /\ rdBuf - rdLen < Alignment
           ELSE rdLen = rdBuf

C16_Witness ==
    /\ rdPc = "ret"
    /\ rdBuf = 2 * Alignment - 1 /\ rdLen = Alignment
    /\ rdRet.n = Alignment

C18_ShutdownTimeout ==
    [][/\ (sdPc = "parked" /\ sdPc' = "done") => sdErr' = ErrCtx
       /\ sdPc' # sdPc => usbLog' = usbLog
       /\ (sdPc' = "done" /\ sdErr' = ErrCtx) => shutdown'
       /\ (sdPc = "done" /\ sdErr = ErrCtx)
             => \A s \in Sessions :
                   (rtPc[s] = "get" /\ rtPc'[s] # "get")
                       => rtErr'[s] = ErrShutdown]_vars

\* C19: Close resets the device exactly if connInUse() was positive when it
\* was called; what it has done is at any time: the reset (if any), then the
\* destroy of the connections of connList in order, then, after all of them,
\* the close of the device handle.
C19_CloseOrder ==
    /\ [](clPc = "idle" => usbLog = <<>>)
    /\ [](clPc # "idle" =>
            /\ usbLog = (IF clInUse > 0 THEN <<Reset>> ELSE <<>>)
                          \o [i \in 1..(clIdx - 1) |-> destroy(connList[i])]
                          \o (IF clPc = "done" THEN <<DevClose>> ELSE <<>>)
            /\ clPc = "done" => clIdx - 1 = NConn)
    /\ [][(clPc = "idle" /\ clPc' # "idle")
             => /\ connInUse > 0 => usbLog' = <<Reset>>
                /\ connInUse = 0 => usbLog' = <<>>]_vars

C19_Witness ==
    /\ clPc = "done"
    /\ clInUse = 1
    /\ usbLog = <<Reset>> \o [i \in 1..NConn |-> destroy(i)] \o <<DevClose>>
    /\ \E c \in Conns : ~InPool(c)

\* C20: when the claim of interface failAt fails, NewUsbTransport has
\* destroyed the connections opened before it once each, in order, then closed
\* the device handle, and returns the error; when the device-info query fails
\* it has closed the device handle and returns the error; a transport is
\* returned only when nothing failed, with nothing destroyed or closed.
C20_FailedConstructionCleansUp ==
    /\ (nwPc = "done" /\ nwDesc.fail = "claim")
          => /\ nwRet = "error"
             /\ usbLog = [i \in 1..(nwDesc.failAt - 1) |-> destroy(i)] \o <<DevClose>>
    /\ (nwPc = "done" /\ nwDesc.fail = "info")
          => (nwRet = "error" /\ usbLog = <<DevClose>>)
    /\ (nwPc = "done" /\ nwRet = "transport")
          => (nwDesc.fail = "none" /\ usbLog = <<>>)
    /\ \A i \in 1..Len(usbLog) : usbLog[i] = DevClose => i = Len(usbLog)

C20_Witness ==
    /\ nwPc = "done" /\ nwRet = "error"
    /\ nwDesc.fail = "claim" /\ nwDesc.failAt = 3
    /\ usbLog = <<destroy(1), destroy(2), DevClose>>

\* C21: usbRequestBodyWrapper.Read returns the byte count of the underlying
\* read unchanged; whenever the underlying read returns an error, io.EOF or
\* another, it returns io.EOF and the wrapper is marked drained (and it is
\* drained only after such a read); Close returns what the underlying body's
\* Close returned.
C21_RequestBodyWrapper ==
    /\ wbRet.n = wbIn.n
    /\ wbIn.err \in {"EOF", ErrBody} => (wbRet.err = "EOF" /\ wbDrained)
    /\ wbIn.err = nil => wbRet.err = nil
    /\ wbIn.err = "none" => (wbRet.err = "none" /\ ~wbDrained)
    /\ wbCloseRet = wbCloseIn

C21_Witness ==
    /\ wbIn = [n |-> 1, err |-> ErrBody]
    /\ wbRet = [n |-> 1, err |-> "EOF"]
    /\ wbDrained
    /\ wbCloseRet = ErrBody

\* C22: the session id RoundTrip assigns is the atomic counter's value mod
\* 1000 and lies in 0..999 for every value the 32-bit counter can take, also
\* after it has wrapped; no two RoundTrip calls observe the same counter value.
C22_SessionInRange ==
    /\ \A i \in 1..Len(sessLog) : sessLog[i].session \in 0..(SessionMod - 1)
    /\ \A i, j \in 1..Len(sessLog) :
          i # j => sessLog[i].counter # sessLog[j].counter

C24_ClosePolicy ==
    /\ [](\A s \in Sessions :
            (rtPc[s] = "done" /\ wrapConn[s] # NoConn /\ closes[s] = 1) =>
                IF drained[s]
                THEN /\ nput[s] = 1
                     /\ \/ InPool(wrapConn[s])
                        \/ Holders(wrapConn[s]) # {}
                        \/ DrainHolds(wrapConn[s]) = 1
                ELSE nput[s] = 0)
    /\ [][\A s \in Sessions :
            (closes'[s] > closes[s] /\ ~drained[s]) =>
                /\ rtPc'[s] = "done"
                /\ drainPc[wrapConn[s]] = "none"
                /\ drainPc'[wrapConn[s]] = "copy"
                /\ UNCHANGED <<connPool, connVars>>]_vars

C24_Witness ==
    \E s, p \in Sessions :
        /\ rtPc[s] = "done" /\ closes[s] = 1 /\ drained[s] /\ nput[s] = 1
        /\ InPool(wrapConn[s])
        /\ rtPc[p] = "done" /\ closes[p] = 1 /\ ~drained[p] /\ nput[p] = 0
        /\ drainPc[wrapConn[p]] = "copy"

\* C25: a request body of 16384 bytes or more is streamed while the request
\* is written.  When its source fails, the body is over as at end-of-stream
\* and outreq.Write goes on: no round-trip returns the body's error, the
\* write can be completed, its next step is a transfer or the step to reading
\* the response, and the connection is released on the write-error path only
\* when a USB transfer fails.
C25_BodyErrorKeepsTransaction ==
    /\ [](\A s \in Sessions :
            /\ rtErr[s] # ErrBody
            /\ rqBody[s] = "failed" =>
                  /\ rtPc[s] \in {"write", "writing"}
                  /\ (rtPc[s] = "write" /\ cntSent[rtConn[s]] >= 1) =>
                         ENABLED WriteDone(s))
    /\ [][\A s \in Sessions :
            rqBody[s] = "failed" =>
                /\ (rtPc[s] = "write" /\ rtPc'[s] # "write") =>
                       rtPc'[s] \in {"writing", "read"}
                /\ rtPc'[s] = "put" =>
                       (rtPc[s] = "writing" /\ rtErr'[s] = ErrIO)]_vars

C25_Witness ==
    \E s \in Sessions :
        /\ rqBody[s] = "failed"
        /\ rtPc[s] = "write"
        /\ cntSent[rtConn[s]] >= 1
        /\ rtErr[s] = nil

\* C26: a caller in usbConnGet is not blocked when Shutdown was signalled,
\* its context is cancelled or a connection is in connPool; it returns the
\* shutdown error only after Shutdown, the cancellation's error only after
\* the cancellation, and a connection only from connPool; and under fairness
\* every waiter returns from usbConnGet eventually.
C26_AcquireReturns ==
    /\ [](\A s \in Sessions :
            (rtPc[s] = "get" /\ (shutdown \/ ctxDone[s] \/ Len(connPool) > 0))
                => ENABLED usbConnGet(s))
    /\ [][\A s \in Sessions :
            (rtPc[s] = "get" /\ rtPc'[s] # "get") =>
                \/ rtErr'[s] = ErrShutdown /\ shutdown /\ rtPc'[s] = "done"
                \/ rtErr'[s] = ErrCtx /\ ctxDone[s] /\ rtPc'[s] = "done"
                \/ /\ rtErr'[s] = nil /\ rtPc'[s] = "write"
                   /\ Len(connPool) > 0 /\ rtConn'[s] = Head(connPool)]_vars
    /\ \A s \in Sessions : (rtPc[s] = "get") ~> (rtPc[s] # "get")

C26_Witness ==
    \E s, p \in Sessions :
        /\ s # p
        /\ rtPc[s] = "get" /\ rtPc[p] = "get"
        /\ Len(connPool) = 0
        /\ ~shutdown /\ ~ctxDone[s] /\ ~ctxDone[p]

\* C27: the lines of a message built with Begin ... Commit appear in the
\* logger's output contiguously and in the order they were added, whatever
\* other messages and single lines are written by other goroutines: every
\* line of a message but its first follows its predecessor at once, and no
\* line is written twice.
C27_MessageAtomic ==
    /\ \A i \in 1..Len(lgOut) :
          (lgOut[i].msg # 0 /\ lgOut[i].idx > 1) =>
              /\ i > 1
              /\ lgOut[i - 1] = [lgOut[i] EXCEPT !.idx = @ - 1]
    /\ \A i, j \in 1..Len(lgOut) : i # j => lgOut[i] # lgOut[j]

C27_Witness ==
    /\ Len(lgOut) >= 5
    /\ \E i \in 1..Len(lgOut) - 2 :
          /\ lgOut[i].msg # 0 /\ lgOut[i].idx = 1
          /\ lgOut[i + 1] = [lgOut[i] EXCEPT !.idx = 2]
          /\ lgOut[i + 2].task # lgOut[i].task
    /\ \E i \in 1..Len(lgOut) : lgOut[i].msg = 0

\* C28: while Logger.paused is greater than zero no line is written to the
\* output and the lines are buffered; the buffered lines stay in the order
\* they were added and leave the buffer only by being written, first line
\* first; and once the Resume that brought the counter back to zero has
\* finished its Flush, no line is left in the buffer.
C28_PauseBuffersResumeFlushes ==
    /\ [][/\ lgOut' # lgOut => lgPaused = 0
          /\ lgRoot' # lgRoot =>
                \/ /\ lgRoot # <<>>
                   /\ lgOut' = Append(lgOut, Head(lgRoot))
                   /\ lgRoot' = Tail(lgRoot)
                \/ /\ lgOut' = lgOut
                   /\ Len(lgRoot') > Len(lgRoot)
                   /\ SubSeq(lgRoot', 1, Len(lgRoot)) = lgRoot]_vars
    /\ []((/\ \A t \in LogTasks : lgPc[t] \in {"idle", "msg"}
           /\ lgPaused = 0
           /\ lgOutSet) => lgRoot = <<>>)

\* C29: a request that declares a content length L with 0 < L < 16384 and
\* whose body delivers fewer than L bytes makes RoundTripWithSession return
\* an error before usbConnGet: the call never comes to acquire a connection
\* or to write, connPool holds every connection, the state tracker and the
\* connections' counters are as they were, and nothing is on the wire.
C29_ShortBodyFailsBeforeAcquire ==
    (0 < rq.ContentLength /\ rq.ContentLength < Threshold
        /\ rq.avail < rq.ContentLength) =>
        /\ shPc \in {"call", "failed"}
        /\ wire = NoWire
        /\ connPool = SeqOfRange(1, NConn)
        /\ \A c \in Conns :
              /\ alloc[c] = 0 /\ read[c] = 0 /\ write[c] = 0
              /\ cntSent[c] = 0 /\ cntRecv[c] = 0

C29_Witness ==
    /\ shPc = "failed"
    /\ rq.ContentLength = Threshold - 1
    /\ rq.avail = Threshold - 2
    /\ outreq.buffered = Threshold - 2
    /\ connPool = SeqOfRange(1, NConn)

\* C30: RoundTripWithSession leaves the caller's request as it was: once the
\* request is prepared, the header the caller's request has is the header it
\* had when the call was made (Expect, Connection and User-Agent included).
C30_CallerRequestUnchanged ==
    shPc \in {"get", "write", "written", "failed"} => hdr = rq.Header

====
